---- MODULE Spec2Model ----
(***************************************************************************)
(* Session tracker: the session lifecycle engine (start / pause / resume / *)
(* end over a document store), the client-time validation and parsing in   *)
(* front of it, and the active-time accrual replay.                        *)
(*                                                                         *)
(* A client time string is a sequence of one-character strings, so that    *)
(* the pattern check and the parse are computed on the characters.  A      *)
(* parsed datetime is the record [ord, sec, ms]: proleptic Gregorian day   *)
(* ordinal, second of the day, millisecond (the pattern admits exactly     *)
(* three fraction digits, so milliseconds are exact).                      *)
(*                                                                         *)
(* Requests are the ones that passed authentication and carry non-empty    *)
(* user, session id and app fields.                                        *)
(***************************************************************************)
EXTENDS Integers, Sequences, FiniteSets, Bags, TLC

(* Python's None.  A record, so that it compares with datetimes, events and
   documents, which are records too. *)
None == [none |-> TRUE]

ACTIVE == "active"
PAUSED == "paused"
ENDED == "ended"

SessionStatus == {ACTIVE, PAUSED, ENDED}

-----------------------------------------------------------------------------
(* Characters and numbers                                                  *)

DigitChars == <<"0", "1", "2", "3", "4", "5", "6", "7", "8", "9">>

IsDigit(c) == \E i \in 1..10 : DigitChars[i] = c

DigitVal(c) == (CHOOSE i \in 1..10 : DigitChars[i] = c) - 1

RECURSIVE NumVal(_)
NumVal(cs) ==
    IF cs = <<>> THEN 0
    ELSE 10 * NumVal(SubSeq(cs, 1, Len(cs) - 1)) + DigitVal(cs[Len(cs)])

AllDigits(cs) == \A i \in 1..Len(cs) : IsDigit(cs[i])

Pad2(n) == <<DigitChars[((n \div 10) % 10) + 1], DigitChars[(n % 10) + 1]>>

Pad3(n) == <<DigitChars[((n \div 100) % 10) + 1]>> \o Pad2(n)

Pad4(n) == <<DigitChars[((n \div 1000) % 10) + 1]>> \o Pad3(n)

(* strftime("%Y-%m-%dT%H:%M:%S") of the test client, followed by a suffix:  *)
(* nothing, "Z", ".mmm" or ".mmmZ".                                        *)
SecondsText(y, mo, d, h, mi, s) ==
    Pad4(y) \o <<"-">> \o Pad2(mo) \o <<"-">> \o Pad2(d) \o <<"T">>
        \o Pad2(h) \o <<":">> \o Pad2(mi) \o <<":">> \o Pad2(s)

get_iso_time(y, mo, d, h, mi, s, ms) ==
    SecondsText(y, mo, d, h, mi, s) \o <<".">> \o Pad3(ms) \o <<"Z">>

-----------------------------------------------------------------------------
(* TimeUtils: validation and parsing of client time strings                *)

(* ^\d{4}-\d{2}-\d{2}T\d{2}:\d{2}:\d{2} at the head of the string.          *)
MatchesSecondsHead(cs) ==
    /\ Len(cs) >= 19
    /\ AllDigits(SubSeq(cs, 1, 4))
    /\ cs[5] = "-"
    /\ AllDigits(SubSeq(cs, 6, 7))
    /\ cs[8] = "-"
    /\ AllDigits(SubSeq(cs, 9, 10))
    /\ cs[11] = "T"
    /\ AllDigits(SubSeq(cs, 12, 13))
    /\ cs[14] = ":"
    /\ AllDigits(SubSeq(cs, 15, 16))
    /\ cs[17] = ":"
    /\ AllDigits(SubSeq(cs, 18, 19))

IsFraction(cs) == Len(cs) = 4 /\ cs[1] = "." /\ AllDigits(SubSeq(cs, 2, 4))

(* (\.\d{3})?Z?$ : the rest after the seconds; "$" also matches before a    *)
(* final newline.                                                          *)
MatchesTail(rest) ==
    LET body == IF rest # <<>> /\ rest[Len(rest)] = "\n"
                THEN SubSeq(rest, 1, Len(rest) - 1) ELSE rest
        noZ == IF body # <<>> /\ body[Len(body)] = "Z"
               THEN SubSeq(body, 1, Len(body) - 1) ELSE body
    IN noZ = <<>> \/ IsFraction(noZ)

ISO_DATETIME_PATTERN(cs) ==
    MatchesSecondsHead(cs) /\ MatchesTail(SubSeq(cs, 20, Len(cs)))

validate_iso_time_format(time_string) ==
    IF time_string = <<>> THEN FALSE ELSE ISO_DATETIME_PATTERN(time_string)

RECURSIVE rstripZ(_)
rstripZ(cs) ==
    IF cs # <<>> /\ cs[Len(cs)] = "Z" THEN rstripZ(SubSeq(cs, 1, Len(cs) - 1))
    ELSE cs

IsLeap(y) == (y % 4 = 0) /\ ((y % 100 # 0) \/ (y % 400 = 0))

DaysInMonth(y, m) ==
    IF m = 2 THEN (IF IsLeap(y) THEN 29 ELSE 28)
    ELSE IF m \in {4, 6, 9, 11} THEN 30 ELSE 31

RECURSIVE DaysBeforeMonth(_, _)
DaysBeforeMonth(y, m) ==
    IF m = 1 THEN 0 ELSE DaysBeforeMonth(y, m - 1) + DaysInMonth(y, m - 1)

DaysBeforeYear(y) ==
    LET p == y - 1 IN (p * 365) + (p \div 4) - (p \div 100) + (p \div 400)

ToOrdinal(y, m, d) == DaysBeforeYear(y) + DaysBeforeMonth(y, m) + d

(* datetime.fromisoformat on YYYY-MM-DDTHH:MM:SS[.fff]: None stands for the *)
(* ValueError it raises on any other text or on an out-of-range field.     *)
fromisoformat(cs) ==
    IF ~(MatchesSecondsHead(cs)
           /\ (Len(cs) = 19 \/ (Len(cs) = 23 /\ IsFraction(SubSeq(cs, 20, 23)))))
    THEN None
    ELSE LET y  == NumVal(SubSeq(cs, 1, 4))
             mo == NumVal(SubSeq(cs, 6, 7))
             d  == NumVal(SubSeq(cs, 9, 10))
             h  == NumVal(SubSeq(cs, 12, 13))
             mi == NumVal(SubSeq(cs, 15, 16))
             s  == NumVal(SubSeq(cs, 18, 19))
             ms == IF Len(cs) = 23 THEN NumVal(SubSeq(cs, 21, 23)) ELSE 0
         IN IF /\ y >= 1
               /\ mo \in 1..12
               /\ d >= 1 /\ d <= DaysInMonth(y, mo)
               /\ h <= 23 /\ mi <= 59 /\ s <= 59
            THEN [ord |-> ToOrdinal(y, mo, d),
                  sec |-> (h * 3600) + (mi * 60) + s,
                  ms  |-> ms]
            ELSE None

HasDot(cs) == \E i \in 1..Len(cs) : cs[i] = "."

BeforeDot(cs) ==
    SubSeq(cs, 1, (CHOOSE i \in 1..Len(cs) :
                      cs[i] = "." /\ \A j \in 1..(i - 1) : cs[j] # ".") - 1)

(* The result of a parse: the datetime, or the HTTPException raised.        *)
Parsed(dt) == [ok |-> TRUE, dt |-> dt]

Raised(code) == [ok |-> FALSE, status_code |-> code]

parse_iso_time_string(time_string) ==
    IF ~validate_iso_time_format(time_string) THEN Raised(400)
    ELSE LET clean_time == rstripZ(time_string)
             first == fromisoformat(clean_time)
             second == fromisoformat(IF HasDot(clean_time)
                                     THEN BeforeDot(clean_time) ELSE clean_time)
         IN IF first # None THEN Parsed(first)
            ELSE IF second # None THEN Parsed(second)
            ELSE Raised(400)

validate_and_parse_time(time_string) ==
    IF time_string = <<>> THEN Raised(400)
    ELSE parse_iso_time_string(time_string)

(* The difference taken the other way round: (b - a).total_seconds().      *)
MillisBetween_Reversed(a, b) ==
    ((b.ord - a.ord) * 86400 + (b.sec - a.sec)) * 1000 + (b.ms - a.ms)

(* (a - b).total_seconds() in milliseconds.                                *)
MillisBetween(a, b) ==
    ((a.ord - b.ord) * 86400 + (a.sec - b.sec)) * 1000 + (a.ms - b.ms)

(* int(x): truncation toward zero of x = ms / 1000.  The running total is   *)
(* kept in exact milliseconds; the code's float sum equals it whenever the *)
(* times are whole seconds or quarters of a second.                        *)
IntOfSeconds(ms) == IF ms >= 0 THEN ms \div 1000 ELSE -((-ms) \div 1000)

(* seconds_to_iso_duration writing the seconds only when they are not 0.   *)
seconds_to_iso_duration_NonzeroOnly(seconds) ==
    LET hours == seconds \div 3600
        remainder == seconds % 3600
        minutes == remainder \div 60
        secs == remainder % 60
    IN "PT"
        \o (IF hours # 0 THEN ToString(hours) \o "H" ELSE "")
        \o (IF minutes # 0 THEN ToString(minutes) \o "M" ELSE "")
        \o (IF secs # 0 THEN ToString(secs) \o "S" ELSE "")

seconds_to_iso_duration(seconds) ==
    LET hours == seconds \div 3600
        remainder == seconds % 3600
        minutes == remainder \div 60
        secs == remainder % 60
    IN "PT"
        \o (IF hours # 0 THEN ToString(hours) \o "H" ELSE "")
        \o (IF minutes # 0 THEN ToString(minutes) \o "M" ELSE "")
        \o (IF secs # 0 \/ (hours = 0 /\ minutes = 0)
            THEN ToString(secs) \o "S" ELSE "")

-----------------------------------------------------------------------------
(* The accrual replay                                                      *)

SessionEvent(parsed_time, status, event_time) ==
    [timestamp |-> parsed_time, status |-> status, event_time |-> event_time]

(* ReplayStep that keeps the start of an interval already open when        *)
(* another ACTIVE event arrives.                                           *)
ReplayStep_KeepsFirstStart(acc, event) ==
    IF event.status = ACTIVE
    THEN [total |-> acc.total,
          start |-> IF acc.start # None THEN acc.start ELSE event.timestamp]
    ELSE IF event.status \in {PAUSED, ENDED} /\ acc.start # None
    THEN [total |-> acc.total + MillisBetween(event.timestamp, acc.start),
          start |-> None]
    ELSE acc

(* ReplayStep adding int(active_duration): each interval cut to whole      *)
(* seconds before it is added.                                             *)
ReplayStep_TruncatesEach(acc, event) ==
    IF event.status = ACTIVE
    THEN [total |-> acc.total, start |-> event.timestamp]
    ELSE IF event.status \in {PAUSED, ENDED} /\ acc.start # None
    THEN [total |-> acc.total
                      + 1000 * IntOfSeconds(MillisBetween(event.timestamp, acc.start)),
          start |-> None]
    ELSE acc

(* ReplayStep adding max(0, active_duration): a negative interval counts   *)
(* as nothing.                                                             *)
ReplayStep_ClampsAtZero(acc, event) ==
    IF event.status = ACTIVE
    THEN [total |-> acc.total, start |-> event.timestamp]
    ELSE IF event.status \in {PAUSED, ENDED} /\ acc.start # None
    THEN [total |-> acc.total
                      + (IF MillisBetween(event.timestamp, acc.start) > 0
                         THEN MillisBetween(event.timestamp, acc.start) ELSE 0),
          start |-> None]
    ELSE acc

(* ReplayStep without `last_active_start = None` after a closed interval.  *)
ReplayStep_KeepsStart(acc, event) ==
    IF event.status = ACTIVE
    THEN [total |-> acc.total, start |-> event.timestamp]
    ELSE IF event.status \in {PAUSED, ENDED} /\ acc.start # None
    THEN [total |-> acc.total + MillisBetween(event.timestamp, acc.start),
          start |-> acc.start]
    ELSE acc

(* One iteration of the loop over the events: acc = [total, start], total  *)
(* in milliseconds, start the open interval's start or None.               *)
ReplayStep(acc, event) ==
    IF event.status = ACTIVE
    THEN [total |-> acc.total, start |-> event.timestamp]
    ELSE IF event.status \in {PAUSED, ENDED} /\ acc.start # None
    THEN [total |-> acc.total + MillisBetween(event.timestamp, acc.start),
          start |-> None]
    ELSE acc

RECURSIVE ReplayLoop(_, _)
ReplayLoop(acc, events) ==
    IF events = <<>> THEN acc
    ELSE ReplayLoop(ReplayStep(acc, Head(events)), Tail(events))

(* The caller's list after the call: `events = events + [...]` builds a    *)
(* new list and rebinds the local name.                                    *)
CallerEvents(events, new_event) == events

(* The replay with the new event left out of the list.                     *)
calculate_session_active_time_WithoutNew(events, new_event) ==
    IntOfSeconds(ReplayLoop([total |-> 0, start |-> None], events).total)

calculate_session_active_time(events, new_event) ==
    LET all == IF new_event # None THEN events \o <<new_event>> ELSE events
    IN IntOfSeconds(ReplayLoop([total |-> 0, start |-> None], all).total)

-----------------------------------------------------------------------------
(* Inputs                                                                  *)

MaxSessions == 2
MaxEvents == 3
MaxInflight == 2
MaxCalcLen == 3
MaxReplays == 2
MaxDuration == 3700
MaxReadSessions == 3
MaxVisits == 2
MaxRaceEvents == 4

Users == {"u1", "u2"}
Apps == {"app1", "app2"}
StatusFields == {"active", "bogus"}

(* The session ids: uuid4 returns the first one no stored session has.     *)
SessionIdPool == <<"s1", "s2", "s3", "s4">>
SessionIds == {"s1", "s2", "s3"}

T0 == SecondsText(2024, 1, 1, 0, 0, 0)
T30 == get_iso_time(2024, 1, 1, 0, 0, 30, 0)
(* Matches the pattern, names no month.                                    *)
TBadMonth == SecondsText(2024, 13, 1, 0, 0, 0) \o <<"Z">>
(* Does not match the pattern.                                             *)
TMalformed == <<"n", "o", "w">>

ValidTimes == {T0, T30}
TimeInputs == ValidTimes \cup {TBadMonth, TMalformed}

(* The scripted client: its clock when the script begins, and the offsets  *)
(* in seconds it adds to it.  The second clock makes the later requests    *)
(* fall on the next day, in the next month.                                *)
ScriptClocks ==
    {[y |-> 2024, mo |-> 1, d |-> 1, h |-> 0, mi |-> 0, s |-> 0],
     [y |-> 2024, mo |-> 2, d |-> 29, h |-> 23, mi |-> 59, s |-> 30]}

Offsets == {0, 5, 30, 60, 120}

(* get_iso_time(offset_seconds): (clock + timedelta(seconds)) formatted    *)
(* with ".000Z".                                                           *)
ClientTime(clock, offset_seconds) ==
    LET total == (clock.h * 3600) + (clock.mi * 60) + clock.s + offset_seconds
        carry == total \div 86400
        rest == total % 86400
        over == (clock.d + carry) > DaysInMonth(clock.y, clock.mo)
        d == IF over THEN (clock.d + carry) - DaysInMonth(clock.y, clock.mo)
             ELSE clock.d + carry
        mo == IF ~over THEN clock.mo ELSE IF clock.mo = 12 THEN 1 ELSE clock.mo + 1
        y == IF over /\ clock.mo = 12 THEN clock.y + 1 ELSE clock.y
    IN get_iso_time(y, mo, d, rest \div 3600, (rest % 3600) \div 60, rest % 60, 0)

ScriptTimes == {ClientTime(clock, o) : clock \in ScriptClocks, o \in Offsets}

(* Client times with a millisecond part, quarters of a second: the code's  *)
(* floating-point sum of their differences is exact.                       *)
MilliTimes ==
    {get_iso_time(2024, 1, 1, 0, 0, 0, 0),
     get_iso_time(2024, 1, 1, 0, 0, 0, 500),
     get_iso_time(2024, 1, 1, 0, 0, 1, 250)}

AllTimes == TimeInputs \cup ScriptTimes \cup MilliTimes

(* datetime.utcnow() of the server.                                        *)
ServerNow == {[ord |-> ToOrdinal(2024, 1, 2), sec |-> 0, ms |-> 0]}

(* The checks of every input time, computed once.                          *)
TimeChecked ==
    [t \in AllTimes |->
        [format |-> validate_iso_time_format(t),
         parsed |-> validate_and_parse_time(t)]]

StartRequests ==
    [user : Users, time : TimeInputs, status : StatusFields, app : Apps]

OperationRequests ==
    [user : Users, session_id : SessionIds, time : TimeInputs, app : Apps]

-----------------------------------------------------------------------------
(* Request models                                                          *)

validate_user(v) == v # ""

validate_session_id(v) == v # ""

(* SessionRequest: what the request body must pass before the route runs.  *)
SessionRequest(data) ==
    TimeChecked[data.time].format /\ validate_user(data.user)

SessionOperationRequest(data) ==
    /\ TimeChecked[data.time].format
    /\ validate_user(data.user)
    /\ validate_session_id(data.session_id)

-----------------------------------------------------------------------------
(* The sessions collection: a sequence of documents in insertion order.    *)

SessionDB(session_id, username, created_at, events, app) ==
    [session_id |-> session_id,
     username |-> username,
     created_at |-> created_at,
     ended_at |-> None,
     events |-> events,
     total_active_time |-> 0,
     status |-> ACTIVE,
     app |-> app]

Matching(store, session_id, statuses, app) ==
    {i \in 1..Len(store) :
        /\ store[i].session_id = session_id
        /\ store[i].status \in statuses
        /\ store[i].app = app}

(* collection.find_one({session_id, status, app}): the first match or None *)
find_one(store, session_id, statuses, app) ==
    LET m == Matching(store, session_id, statuses, app)
    IN IF m = {} THEN None
       ELSE store[CHOOSE i \in m : \A j \in m : i <= j]

insert_one(store, doc) == Append(store, doc)

(* update_one with events among the $set fields instead of $push.          *)
update_one_SetsEvents(store, session_id, new_event, fields) ==
    LET m == {i \in 1..Len(store) : store[i].session_id = session_id}
    IN IF m = {} THEN store
       ELSE LET k == CHOOSE i \in m : \A j \in m : i <= j
                d == store[k]
            IN [store EXCEPT ![k] =
                   [f \in DOMAIN d |->
                       IF f = "events" THEN <<new_event>>
                       ELSE IF f \in DOMAIN fields THEN fields[f]
                       ELSE d[f]]]

(* collection.update_one({session_id}, {$push: {events}, $set: fields}):   *)
(* applied to the first document with that id, whatever its status.        *)
update_one(store, session_id, new_event, fields) ==
    LET m == {i \in 1..Len(store) : store[i].session_id = session_id}
    IN IF m = {} THEN store
       ELSE LET k == CHOOSE i \in m : \A j \in m : i <= j
                d == store[k]
            IN [store EXCEPT ![k] =
                   [f \in DOMAIN d |->
                       IF f = "events" THEN Append(d.events, new_event)
                       ELSE IF f \in DOMAIN fields THEN fields[f]
                       ELSE d[f]]]

-----------------------------------------------------------------------------
(* SessionService: each operation up to its store write, and the write.    *)
(* A service call ends in one of: a returned dict (kind "return"), a       *)
(* returned {"error": ...} (kind "error"), a raised HTTPException (kind    *)
(* "raise"), or, for pause/resume/end, the update still to be issued       *)
(* (kind "update").                                                        *)

(* uuid4 replaced by a fixed id.                                           *)
uuid4_Fixed(store) == SessionIdPool[1]

uuid4(store) ==
    LET free == {k \in 1..Len(SessionIdPool) :
                    \A i \in 1..Len(store) : store[i].session_id # SessionIdPool[k]}
    IN SessionIdPool[CHOOSE k \in free : \A j \in free : k <= j]

start_session(store, session_data, now) ==
    LET parsed == TimeChecked[session_data.time].parsed
        session_id == uuid4(store)
    IN IF ~parsed.ok
       THEN [kind |-> "raise", status_code |-> parsed.status_code, store |-> store]
       ELSE [kind |-> "return",
             result |-> [session_id |-> session_id,
                         user_id |-> session_data.user,
                         start_time |-> parsed.dt,
                         message |-> "Session started successfully"],
             store |-> insert_one(store,
                          SessionDB(session_id, session_data.user, now,
                                    <<SessionEvent(parsed.dt, ACTIVE, session_data.time)>>,
                                    session_data.app))]

(* OperationFind whose find_one filter also asks for the request's user as *)
(* the session's username.                                                 *)
OperationFind_OwnerOnly(op, statuses, new_status, recompute, store, session_data) ==
    LET own == SelectSeq(store, LAMBDA doc : doc.username = session_data.user)
        session == find_one(own, session_data.session_id, statuses, session_data.app)
        parsed == TimeChecked[session_data.time].parsed
    IN IF session = None THEN [kind |-> "error"]
       ELSE IF ~parsed.ok THEN [kind |-> "raise", status_code |-> parsed.status_code]
       ELSE LET new_event == SessionEvent(parsed.dt, new_status, session_data.time)
            IN [kind |-> "update",
                op |-> op,
                request_session_id |-> session_data.session_id,
                session_id |-> session.session_id,
                username |-> session.username,
                start_time |-> session.events[1].timestamp,
                parsed_time |-> parsed.dt,
                new_event |-> new_event,
                active_time |-> IF recompute
                                THEN calculate_session_active_time(session.events, new_event)
                                ELSE 0]

(* find_one, the not-found return, the parse, the new event and (pause,    *)
(* end) the replay: everything an operation does before update_one.        *)
OperationFind(op, statuses, new_status, recompute, store, session_data) ==
    LET session == find_one(store, session_data.session_id, statuses, session_data.app)
        parsed == TimeChecked[session_data.time].parsed
    IN IF session = None THEN [kind |-> "error"]
       ELSE IF ~parsed.ok THEN [kind |-> "raise", status_code |-> parsed.status_code]
       ELSE LET new_event == SessionEvent(parsed.dt, new_status, session_data.time)
            IN [kind |-> "update",
                op |-> op,
                request_session_id |-> session_data.session_id,
                session_id |-> session.session_id,
                username |-> session.username,
                start_time |-> session.events[1].timestamp,
                parsed_time |-> parsed.dt,
                new_event |-> new_event,
                active_time |-> IF recompute
                                THEN calculate_session_active_time(session.events, new_event)
                                ELSE 0]

(* pause_session with the status left out of its find_one filter.         *)
pause_session_find_AnyStatus(store, session_data) ==
    OperationFind("pause", {ACTIVE, PAUSED, ENDED}, PAUSED, TRUE, store, session_data)

(* end_session whose find_one filter asks for ACTIVE alone.                *)
end_session_find_ActiveOnly(store, session_data) ==
    OperationFind("end", {ACTIVE}, ENDED, TRUE, store, session_data)

(* end_session that writes 0 instead of replaying the events.              *)
end_session_find_NoReplay(store, session_data) ==
    OperationFind("end", {ACTIVE, PAUSED}, ENDED, FALSE, store, session_data)

(* resume_session whose find_one filter also admits ACTIVE sessions.       *)
resume_session_find_ActiveToo(store, session_data) ==
    OperationFind("resume", {ACTIVE, PAUSED}, ACTIVE, FALSE, store, session_data)

pause_session_find(store, session_data) ==
    OperationFind("pause", {ACTIVE}, PAUSED, TRUE, store, session_data)

resume_session_find(store, session_data) ==
    OperationFind("resume", {PAUSED}, ACTIVE, FALSE, store, session_data)

end_session_find(store, session_data) ==
    OperationFind("end", {ACTIVE, PAUSED}, ENDED, TRUE, store, session_data)

(* pause_session whose update_one filter also asks for status ACTIVE: the  *)
(* write is skipped when the session is no longer ACTIVE.                  *)
pause_session_update_IfActive(store, p) ==
    IF \E i \in 1..Len(store) :
          store[i].session_id = p.session_id /\ store[i].status = ACTIVE
    THEN update_one(store, p.session_id, p.new_event,
                    [status |-> PAUSED, total_active_time |-> p.active_time])
    ELSE store

(* pause_session whose $set leaves the status out.                         *)
pause_session_update_KeepsStatus(store, p) ==
    update_one(store, p.session_id, p.new_event,
               [total_active_time |-> p.active_time])

pause_session_update(store, p) ==
    update_one(store, p.session_id, p.new_event,
               [status |-> PAUSED, total_active_time |-> p.active_time])

(* resume_session that also writes total_active_time, as pause does.       *)
resume_session_update_SetsTotal(store, p) ==
    update_one(store, p.session_id, p.new_event,
               [status |-> ACTIVE, total_active_time |-> p.active_time])

resume_session_update(store, p) ==
    update_one(store, p.session_id, p.new_event, [status |-> ACTIVE])

end_session_update(store, p, now) ==
    update_one(store, p.session_id, p.new_event,
               [status |-> ENDED, ended_at |-> now,
                total_active_time |-> p.active_time])

OperationResult(p, message) ==
    [session_id |-> p.request_session_id,
     message |-> message,
     timestamp |-> p.parsed_time]

end_session_result(p) ==
    [session_id |-> p.request_session_id,
     user_id |-> p.username,
     start_time |-> p.start_time,
     end_time |-> p.parsed_time,
     total_active_time |-> seconds_to_iso_duration(p.active_time),
     message |-> "Session ended successfully"]

-----------------------------------------------------------------------------
(* Routes: the HTTP response of each call.                                 *)

Response(status_code, body) == [status_code |-> status_code, body |-> body]

Detail(text) == [detail |-> text]

(* FastAPI's answer to a body the request model rejects.                   *)
Unprocessable == Response(422, Detail("Invalid time format"))

(* /start: try: ... except Exception: HTTPException(500).                  *)
start_route(out) ==
    IF out.kind = "raise"
    THEN Response(500, Detail("Error starting session: "))
    ELSE Response(200, out.result)

(* The operation routes without `except HTTPException: raise`, as /start   *)
(* is written.                                                             *)
operation_route_NoReraise(out, not_found) ==
    Response(500, Detail("Error: "))

(* /pause, /resume, /end before the update: "error" in result -> 404;      *)
(* an HTTPException is re-raised as it is.                                 *)
operation_route(out, not_found) ==
    IF out.kind = "error" THEN Response(404, Detail(not_found))
    ELSE Response(out.status_code, Detail("Failed to parse time string"))

pause_route(out) ==
    operation_route(out, "No active session found with the provided session ID")

resume_route(out) ==
    operation_route(out, "No paused session found with the provided session ID")

end_route(out) ==
    operation_route(out, "No active or paused session found with the provided session ID")

(* A whole request served with no other request in between: the response  *)
(* and the collection it leaves.                                           *)
Served(resp, store) == [response |-> resp, store |-> store]

StartCall(store, session_data, now) ==
    IF ~SessionRequest(session_data) THEN Served(Unprocessable, store)
    ELSE LET out == start_session(store, session_data, now)
         IN Served(start_route(out), out.store)

PauseCall(store, session_data) ==
    IF ~SessionOperationRequest(session_data) THEN Served(Unprocessable, store)
    ELSE LET out == pause_session_find(store, session_data)
         IN IF out.kind = "update"
            THEN Served(Response(200, OperationResult(out, "Session paused successfully")),
                        pause_session_update(store, out))
            ELSE Served(pause_route(out), store)

ResumeCall(store, session_data) ==
    IF ~SessionOperationRequest(session_data) THEN Served(Unprocessable, store)
    ELSE LET out == resume_session_find(store, session_data)
         IN IF out.kind = "update"
            THEN Served(Response(200, OperationResult(out, "Session resumed successfully")),
                        resume_session_update(store, out))
            ELSE Served(resume_route(out), store)

EndCall(store, session_data, now) ==
    IF ~SessionOperationRequest(session_data) THEN Served(Unprocessable, store)
    ELSE LET out == end_session_find(store, session_data)
         IN IF out.kind = "update"
            THEN Served(Response(200, end_session_result(out)),
                        end_session_update(store, out, now))
            ELSE Served(end_route(out), store)

-----------------------------------------------------------------------------
(* State                                                                   *)

VARIABLES
    sessions,     \* the sessions collection
    pending,      \* bag of the update_one calls of requests past their find_one
    pageTracks,   \* the page_tracks collection
    calcEvents,   \* replay harness: the caller's event list
    calcNew,      \* replay harness: the new_event argument (or None)
    calcInput,    \* replay harness: the caller's event list before any call
    calcResults,  \* replay harness: the values returned so far
    script,       \* one client's scripted lifecycle and its position in it
    lastResponse, \* the response to the script's latest request
    durSeconds,   \* duration harness: the argument of seconds_to_iso_duration
    durText,      \* duration harness: the text returned (or None)
    lastRead,     \* the latest analytics read: its request and its result
    authToken,    \* authentication harness: the bearer token presented
    authUser      \* authentication harness: the outcome (or None)

vars == <<sessions, pending, pageTracks, calcEvents, calcNew, calcInput, calcResults,
          script, lastResponse, durSeconds, durText, lastRead, authToken, authUser>>

calcVars == <<calcEvents, calcNew, calcInput, calcResults>>

(* Everything but the two collections of the session engine.               *)
otherVars == <<pageTracks, calcVars, script, lastResponse, durSeconds, durText,
               lastRead, authToken, authUser>>

CalcIdle ==
    /\ calcEvents = <<>>
    /\ calcNew = None
    /\ calcInput = <<>>
    /\ calcResults = <<>>

ScriptIdle == script = None /\ lastResponse = None

DurationIdle == durSeconds = 0 /\ durText = None

ReadIdle == lastRead = None

AuthIdle == authToken = None /\ authUser = None

Init ==
    /\ sessions = <<>>
    /\ pending = EmptyBag
    /\ pageTracks = <<>>
    /\ CalcIdle /\ ScriptIdle /\ DurationIdle /\ ReadIdle /\ AuthIdle

RECURSIVE TotalEvents(_)
TotalEvents(store) ==
    IF store = <<>> THEN 0 ELSE Len(Head(store).events) + TotalEvents(Tail(store))

(* Room for one more event, counting the updates already on their way.     *)
EventRoom == TotalEvents(sessions) + BagCardinality(pending) < MaxEvents

-----------------------------------------------------------------------------
(* Actions.  `cap` is the number of requests that may be between their     *)
(* find_one and their update_one at once.  A request that is rejected or   *)
(* finds no session changes nothing.                                       *)

StartSession(session_data) ==
    /\ \E now \in ServerNow :
          LET served == StartCall(sessions, session_data, now)
          IN /\ served.store # sessions => (Len(sessions) < MaxSessions /\ EventRoom)
             /\ sessions' = served.store
    /\ UNCHANGED <<pending, otherVars>>

FindStep(session_data, cap, out) ==
    /\ BagCardinality(pending) < cap
    /\ IF SessionOperationRequest(session_data) /\ out.kind = "update"
       THEN EventRoom /\ pending' = pending (+) SetToBag({out})
       ELSE pending' = pending
    /\ UNCHANGED <<sessions, otherVars>>

PauseFind(session_data, cap) ==
    FindStep(session_data, cap, pause_session_find(sessions, session_data))

ResumeFind(session_data, cap) ==
    FindStep(session_data, cap, resume_session_find(sessions, session_data))

EndFind(session_data, cap) ==
    FindStep(session_data, cap, end_session_find(sessions, session_data))

PauseUpdate(p) ==
    /\ p.op = "pause"
    /\ sessions' = pause_session_update(sessions, p)
    /\ pending' = pending (-) SetToBag({p})
    /\ UNCHANGED otherVars

ResumeUpdate(p) ==
    /\ p.op = "resume"
    /\ sessions' = resume_session_update(sessions, p)
    /\ pending' = pending (-) SetToBag({p})
    /\ UNCHANGED otherVars

EndUpdate(p) ==
    /\ p.op = "end"
    /\ \E now \in ServerNow : sessions' = end_session_update(sessions, p, now)
    /\ pending' = pending (-) SetToBag({p})
    /\ UNCHANGED otherVars

Next ==
    \/ \E session_data \in StartRequests : StartSession(session_data)
    \/ \E session_data \in OperationRequests : PauseFind(session_data, MaxInflight)
    \/ \E session_data \in OperationRequests : ResumeFind(session_data, MaxInflight)
    \/ \E session_data \in OperationRequests : EndFind(session_data, MaxInflight)
    \/ \E p \in BagToSet(pending) : PauseUpdate(p)
    \/ \E p \in BagToSet(pending) : ResumeUpdate(p)
    \/ \E p \in BagToSet(pending) : EndUpdate(p)

Spec == Init /\ [][Next]_vars

(* Requests one after another: no request starts while an update is        *)
(* outstanding.                                                            *)
NextSeq ==
    \/ \E session_data \in StartRequests : pending = EmptyBag /\ StartSession(session_data)
    \/ \E session_data \in OperationRequests : PauseFind(session_data, 1)
    \/ \E session_data \in OperationRequests : ResumeFind(session_data, 1)
    \/ \E session_data \in OperationRequests : EndFind(session_data, 1)
    \/ \E p \in BagToSet(pending) : PauseUpdate(p)
    \/ \E p \in BagToSet(pending) : ResumeUpdate(p)
    \/ \E p \in BagToSet(pending) : EndUpdate(p)

SpecSeq == Init /\ [][NextSeq]_vars

-----------------------------------------------------------------------------
(* The replay on its own: any event list over the three statuses with      *)
(* whole-second times, replayed repeatedly.                                *)

CalcEventSet ==
    {SessionEvent(TimeChecked[t].parsed.dt, st, t) : t \in ValidTimes, st \in SessionStatus}

SeqsUpTo(S, n) == UNION {[1..k -> S] : k \in 0..n}

InitCalc ==
    /\ sessions = <<>>
    /\ pending = EmptyBag
    /\ pageTracks = <<>>
    /\ ScriptIdle /\ DurationIdle /\ ReadIdle /\ AuthIdle
    /\ calcEvents \in SeqsUpTo(CalcEventSet, MaxCalcLen)
    /\ calcNew \in CalcEventSet \cup {None}
    /\ calcInput = calcEvents
    /\ calcResults = <<>>

CalcReplay ==
    /\ Len(calcResults) < MaxReplays
    /\ calcResults' = Append(calcResults,
                             calculate_session_active_time(calcEvents, calcNew))
    /\ calcEvents' = CallerEvents(calcEvents, calcNew)
    /\ UNCHANGED <<sessions, pending, pageTracks, calcNew, calcInput>>
    /\ UNCHANGED <<script, lastResponse, durSeconds, durText, lastRead, authToken, authUser>>

NextCalc == CalcReplay

SpecCalc == InitCalc /\ [][NextCalc]_vars

-----------------------------------------------------------------------------
(* Properties                                                              *)

IsClosing(st) == st \in {PAUSED, ENDED}

(* j closes an interval: a PAUSED/ENDED event with an ACTIVE event before   *)
(* it and no PAUSED/ENDED event in between.                                *)
ClosesInterval(evs, j) ==
    /\ IsClosing(evs[j].status)
    /\ \E i \in 1..(j - 1) :
          /\ evs[i].status = ACTIVE
          /\ \A k \in (i + 1)..(j - 1) : ~IsClosing(evs[k].status)

MostRecentActive(evs, j) ==
    CHOOSE i \in 1..(j - 1) :
        /\ evs[i].status = ACTIVE
        /\ \A k \in (i + 1)..(j - 1) : evs[k].status # ACTIVE

RECURSIVE ClosedIntervalMillis(_, _)
ClosedIntervalMillis(evs, j) ==
    IF j = 0 THEN 0
    ELSE ClosedIntervalMillis(evs, j - 1)
           + (IF ClosesInterval(evs, j)
              THEN MillisBetween(evs[j].timestamp,
                                 evs[MostRecentActive(evs, j)].timestamp)
              ELSE 0)

Replayed == IF calcNew = None THEN calcInput ELSE calcInput \o <<calcNew>>

(* C1: every replay of an event list returns the sum of (close - open)     *)
(* over its closed intervals, each closed against the most recent ACTIVE   *)
(* event; a second replay returns the same value, and the caller's list    *)
(* is left as it was.                                                      *)
TheoremC1 ==
    /\ calcEvents = calcInput
    /\ \A k \in 1..Len(calcResults) :
          /\ calcResults[k] * 1000 = ClosedIntervalMillis(Replayed, Len(Replayed))
          /\ calcResults[k] = calcResults[1]

WitnessC1 ==
    /\ Len(calcResults) = 2
    /\ Len(Replayed) = 4
    /\ ClosesInterval(Replayed, 2) /\ ClosesInterval(Replayed, 4)
    /\ calcResults[2] = 60

(* C2: every stored accrued active-time equals the replay of the stored    *)
(* event sequence of that session.                                         *)
ClaimC2 ==
    \A i \in 1..Len(sessions) :
        sessions[i].total_active_time
            = calculate_session_active_time(sessions[i].events, None)

(* C3: once a session's status is ENDED no step changes the session.       *)
ClaimC3 ==
    [][\A i \in 1..Len(sessions) :
          sessions[i].status = ENDED => sessions'[i] = sessions[i]]_vars

-----------------------------------------------------------------------------
(* Requests and their outcome on the stored collection                     *)

TimeOf(t) == TimeChecked[t].parsed.dt

Found(store, session_data, statuses) ==
    {i \in 1..Len(store) :
        /\ store[i].session_id = session_data.session_id
        /\ store[i].status \in statuses
        /\ store[i].app = session_data.app}

OthersUnchanged(before, after, i) ==
    /\ Len(after) = Len(before)
    /\ \A j \in 1..Len(before) : j # i => after[j] = before[j]

SameBut(pre, post, fields) ==
    \A f \in DOMAIN pre : f \notin fields => post[f] = pre[f]

Statuses(evs) == [k \in 1..Len(evs) |-> evs[k].status]

(* C4: a pause with a valid time succeeds exactly when a stored session    *)
(* has the id, status ACTIVE and the app; then one PAUSED event with the   *)
(* client time is appended, the status is PAUSED and the accrued time is   *)
(* the replay of the old events followed by the new one.                   *)
TheoremC4 ==
    \A r \in OperationRequests :
        r.time \in ValidTimes =>
            LET served == PauseCall(sessions, r)
                found == Found(sessions, r, {ACTIVE})
            IN /\ (served.response.status_code = 200) <=> (found # {})
               /\ \A i \in found :
                     LET pre == sessions[i]
                         post == served.store[i]
                         e == SessionEvent(TimeOf(r.time), PAUSED, r.time)
                     IN /\ OthersUnchanged(sessions, served.store, i)
                        /\ post.events = Append(pre.events, e)
                        /\ post.status = PAUSED
                        /\ post.total_active_time
                             = calculate_session_active_time(pre.events \o <<e>>, None)

WitnessC4 ==
    \E i \in 1..Len(sessions) :
        /\ Statuses(sessions[i].events) = <<ACTIVE, PAUSED>>
        /\ sessions[i].status = PAUSED
        /\ sessions[i].total_active_time = 30
        /\ \E r \in OperationRequests :
              /\ r.session_id = sessions[i].session_id
              /\ r.app = sessions[i].app
              /\ r.time \in ValidTimes
              /\ PauseCall(sessions, r).response.status_code = 404

(* C5: an end with a valid time succeeds exactly when a stored session has *)
(* the id, status ACTIVE or PAUSED and the app; then one ENDED event with  *)
(* the client time is appended, the status is ENDED, the end timestamp is  *)
(* set, the accrued time is the replay including the new event, the        *)
(* response's total_active_time is the duration text of that value, and a  *)
(* PAUSED session keeps the accrued time it had.                           *)
TheoremC5 ==
    \A r \in OperationRequests : \A now \in ServerNow :
        r.time \in ValidTimes =>
            LET served == EndCall(sessions, r, now)
                found == Found(sessions, r, {ACTIVE, PAUSED})
            IN /\ (served.response.status_code = 200) <=> (found # {})
               /\ \A i \in found :
                     LET pre == sessions[i]
                         post == served.store[i]
                         e == SessionEvent(TimeOf(r.time), ENDED, r.time)
                     IN /\ OthersUnchanged(sessions, served.store, i)
                        /\ post.events = Append(pre.events, e)
                        /\ post.status = ENDED
                        /\ post.ended_at = now /\ post.ended_at # None
                        /\ post.total_active_time
                             = calculate_session_active_time(pre.events \o <<e>>, None)
                        /\ served.response.body.total_active_time
                             = seconds_to_iso_duration(post.total_active_time)
                        /\ pre.status = PAUSED
                             => post.total_active_time = pre.total_active_time

WitnessC5 ==
    \E i \in 1..Len(sessions) :
        /\ Statuses(sessions[i].events) = <<ACTIVE, PAUSED, ENDED>>
        /\ sessions[i].status = ENDED
        /\ sessions[i].ended_at # None
        /\ sessions[i].total_active_time = 30

(* C6: a resume with a valid time succeeds exactly when a stored session   *)
(* has the id, status PAUSED and the app; then one ACTIVE event with the   *)
(* client time is appended and the status is ACTIVE, and nothing else of   *)
(* the session changes (accrued time, end timestamp, owner, app, creation  *)
(* timestamp).                                                             *)
TheoremC6 ==
    \A r \in OperationRequests :
        r.time \in ValidTimes =>
            LET served == ResumeCall(sessions, r)
                found == Found(sessions, r, {PAUSED})
            IN /\ (served.response.status_code = 200) <=> (found # {})
               /\ \A i \in found :
                     LET pre == sessions[i]
                         post == served.store[i]
                         e == SessionEvent(TimeOf(r.time), ACTIVE, r.time)
                     IN /\ OthersUnchanged(sessions, served.store, i)
                        /\ post.events = Append(pre.events, e)
                        /\ post.status = ACTIVE
                        /\ SameBut(pre, post, {"events", "status"})

WitnessC6 ==
    \E i \in 1..Len(sessions) :
        /\ Statuses(sessions[i].events) = <<ACTIVE, PAUSED, ACTIVE>>
        /\ sessions[i].status = ACTIVE
        /\ sessions[i].total_active_time = 30
        /\ sessions[i].ended_at = None

(* C7: a start with a valid time succeeds whatever is stored and whatever  *)
(* its status field says; it adds one session with an id no stored session *)
(* has, status ACTIVE, accrued time 0, no end timestamp and the single     *)
(* ACTIVE event at the client time, and changes no stored session.         *)
TheoremC7 ==
    \A r \in StartRequests : \A now \in ServerNow :
        r.time \in ValidTimes =>
            LET served == StartCall(sessions, r, now)
                n == Len(sessions)
            IN /\ served.response.status_code = 200
               /\ Len(served.store) = n + 1
               /\ SubSeq(served.store, 1, n) = sessions
               /\ LET new == served.store[n + 1]
                  IN /\ \A j \in 1..n : sessions[j].session_id # new.session_id
                     /\ served.response.body.session_id = new.session_id
                     /\ new.status = ACTIVE
                     /\ new.total_active_time = 0
                     /\ new.ended_at = None
                     /\ new.events = <<SessionEvent(TimeOf(r.time), ACTIVE, r.time)>>
                     /\ new.username = r.user
                     /\ new.app = r.app

WitnessC7 ==
    /\ Len(sessions) = 2
    /\ sessions[1].session_id # sessions[2].session_id
    /\ sessions[1].status = PAUSED
    /\ sessions[2].status = ACTIVE
    /\ Len(sessions[2].events) = 1
    /\ sessions[2].total_active_time = 0

(* The request body passes the request model: its time matches the format  *)
(* pattern (it need not name a real date).                                 *)
WellFormed(r) == r.time \in ValidTimes \cup {TBadMonth}

IsValidationFailure(resp) == resp.status_code \in {400, 422}

(* C9: a pause, resume or end whose time is not a valid timestamp is a     *)
(* validation failure, whether or not a matching session is stored, and    *)
(* changes no session.                                                     *)
ClaimC9 ==
    \A r \in OperationRequests : \A now \in ServerNow :
        r.time \notin ValidTimes =>
            /\ IsValidationFailure(PauseCall(sessions, r).response)
            /\ IsValidationFailure(ResumeCall(sessions, r).response)
            /\ IsValidationFailure(EndCall(sessions, r, now).response)
            /\ PauseCall(sessions, r).store = sessions
            /\ ResumeCall(sessions, r).store = sessions
            /\ EndCall(sessions, r, now).store = sessions

IsClientError(served, store) ==
    /\ served.response.status_code \in 400..499
    /\ served.response.body.detail # ""
    /\ served.store = store

(* C10: for start, pause, resume and end, a request whose time fails       *)
(* validation or parsing is answered with a 4xx status and a message,      *)
(* never 5xx, and no session is created or changed.                        *)
ClaimC10 ==
    \A now \in ServerNow :
        /\ \A r \in StartRequests :
              r.time \notin ValidTimes => IsClientError(StartCall(sessions, r, now), sessions)
        /\ \A r \in OperationRequests :
              r.time \notin ValidTimes =>
                  /\ IsClientError(PauseCall(sessions, r), sessions)
                  /\ IsClientError(ResumeCall(sessions, r), sessions)
                  /\ IsClientError(EndCall(sessions, r, now), sessions)

-----------------------------------------------------------------------------
(* Accrued time across steps                                               *)

(* C11: no step lowers a session's stored accrued active-time, whatever    *)
(* times the clients claim.                                                *)
ClaimC11 ==
    [][\A i \in 1..Len(sessions) :
          sessions'[i].total_active_time >= sessions[i].total_active_time]_vars

-----------------------------------------------------------------------------
(* One client running a scripted lifecycle, each request served before the *)
(* next is sent: start at the clock time, then the remaining operations at *)
(* clock + offset, on the session id the previous response carried.        *)

ScriptStep(op, offset) == [op |-> op, offset |-> offset]

FullScript(a, b, c) ==
    <<ScriptStep("start", 0), ScriptStep("pause", a),
      ScriptStep("resume", b), ScriptStep("end", c)>>

ShortScript(d) == <<ScriptStep("start", 0), ScriptStep("end", d)>>

ScriptSteps ==
    {FullScript(a, b, c) : a \in Offsets, b \in Offsets, c \in Offsets}
        \cup {ShortScript(d) : d \in Offsets}

(* The offsets a client's clock can produce never go back.                 *)
Nondecreasing(steps) ==
    \A i \in 1..(Len(steps) - 1) : steps[i].offset <= steps[i + 1].offset

Scripts ==
    {[clock |-> clock, user |-> user, app |-> app, steps |-> steps, pc |-> 0] :
        clock \in ScriptClocks, user \in Users, app \in Apps,
        steps \in {st \in ScriptSteps : Nondecreasing(st)}}

InitScript ==
    /\ sessions = <<>>
    /\ pending = EmptyBag
    /\ pageTracks = <<>>
    /\ script \in Scripts
    /\ lastResponse = None
    /\ CalcIdle /\ DurationIdle /\ ReadIdle /\ AuthIdle

ScriptNext(op) ==
    /\ script.pc < Len(script.steps)
    /\ script.steps[script.pc + 1].op = op

ScriptTime == ClientTime(script.clock, script.steps[script.pc + 1].offset)

(* The body of the script's next pause, resume or end.                     *)
ScriptOperation ==
    [user |-> script.user,
     session_id |-> lastResponse.body.session_id,
     time |-> ScriptTime,
     app |-> script.app]

ScriptServed(served) ==
    /\ sessions' = served.store
    /\ lastResponse' = served.response
    /\ script' = [script EXCEPT !.pc = @ + 1]
    /\ UNCHANGED <<pending, pageTracks, calcVars, durSeconds, durText,
                   lastRead, authToken, authUser>>

ScriptStart ==
    /\ ScriptNext("start")
    /\ \E now \in ServerNow :
          ScriptServed(StartCall(sessions,
                                 [user |-> script.user, time |-> ScriptTime,
                                  status |-> "active", app |-> script.app],
                                 now))

ScriptPause ==
    /\ ScriptNext("pause")
    /\ ScriptServed(PauseCall(sessions, ScriptOperation))

ScriptResume ==
    /\ ScriptNext("resume")
    /\ ScriptServed(ResumeCall(sessions, ScriptOperation))

ScriptEnd ==
    /\ ScriptNext("end")
    /\ \E now \in ServerNow : ScriptServed(EndCall(sessions, ScriptOperation, now))

NextScript == ScriptStart \/ ScriptPause \/ ScriptResume \/ ScriptEnd

SpecScript == InitScript /\ [][NextScript]_vars

ScriptDone == script.pc = Len(script.steps)

ScriptOps == [k \in 1..Len(script.steps) |-> script.steps[k].op]

(* C12: after start at t0, pause at t0+a, resume at t0+b and end at t0+c   *)
(* (0 <= a <= b <= c), served one after another, the session's accrued     *)
(* active-time is a + (c - b) seconds and the end response reports its     *)
(* duration text; a=30, b=60, c=120 gives 90 seconds and "PT1M30S".        *)
TheoremC12 ==
    (ScriptDone /\ ScriptOps = <<"start", "pause", "resume", "end">>) =>
        LET a == script.steps[2].offset
            b == script.steps[3].offset
            c == script.steps[4].offset
        IN /\ Len(sessions) = 1
           /\ sessions[1].status = ENDED
           /\ sessions[1].total_active_time = a + (c - b)
           /\ lastResponse.status_code = 200
           /\ lastResponse.body.total_active_time = seconds_to_iso_duration(a + (c - b))
           /\ (a = 30 /\ b = 60 /\ c = 120) =>
                 /\ sessions[1].total_active_time = 90
                 /\ lastResponse.body.total_active_time = "PT1M30S"

WitnessC12 ==
    /\ ScriptDone
    /\ ScriptOps = <<"start", "pause", "resume", "end">>
    /\ script.clock.mo = 2
    /\ script.steps[2].offset = 30
    /\ script.steps[3].offset = 60
    /\ script.steps[4].offset = 120
    /\ sessions[1].total_active_time = 90
    /\ lastResponse.body.total_active_time = "PT1M30S"

(* C13: after start at t0 and end at t0+d (d >= 0) with nothing in         *)
(* between, the session's accrued active-time is d seconds and the end     *)
(* response's total_active_time is the duration text of d; d=5 gives 5     *)
(* seconds and "PT5S".                                                     *)
TheoremC13 ==
    (ScriptDone /\ ScriptOps = <<"start", "end">>) =>
        LET d == script.steps[2].offset
        IN /\ Len(sessions) = 1
           /\ Statuses(sessions[1].events) = <<ACTIVE, ENDED>>
           /\ sessions[1].total_active_time = d
           /\ lastResponse.status_code = 200
           /\ lastResponse.body.total_active_time = seconds_to_iso_duration(d)
           /\ d = 5 =>
                 /\ sessions[1].total_active_time = 5
                 /\ lastResponse.body.total_active_time = "PT5S"

WitnessC13 ==
    /\ ScriptDone
    /\ ScriptOps = <<"start", "end">>
    /\ script.steps[2].offset = 5
    /\ sessions[1].total_active_time = 5
    /\ lastResponse.body.total_active_time = "PT5S"

-----------------------------------------------------------------------------
(* seconds_to_iso_duration on its own: any whole number of seconds, of     *)
(* either sign, formatted once.                                            *)

DurationInputs == (0 - MaxDuration)..MaxDuration

InitDuration ==
    /\ sessions = <<>>
    /\ pending = EmptyBag
    /\ pageTracks = <<>>
    /\ durSeconds \in DurationInputs
    /\ durText = None
    /\ CalcIdle /\ ScriptIdle /\ ReadIdle /\ AuthIdle

FormatDuration ==
    /\ durText = None
    /\ durText' = [text |-> seconds_to_iso_duration(durSeconds)]
    /\ UNCHANGED <<sessions, pending, pageTracks, calcVars, script, lastResponse,
                   durSeconds, lastRead, authToken, authUser>>

NextDuration == FormatDuration

SpecDuration == InitDuration /\ [][NextDuration]_vars

Component(n, letter) == ToString(n) \o letter

(* "PT", then nH iff hours # 0, nM iff minutes # 0, nS iff seconds # 0 or   *)
(* hours and minutes are both 0.                                           *)
DurationForm(hours, minutes, seconds) ==
    "PT" \o (IF hours # 0 THEN Component(hours, "H") ELSE "")
         \o (IF minutes # 0 THEN Component(minutes, "M") ELSE "")
         \o (IF seconds # 0 \/ (hours = 0 /\ minutes = 0)
             THEN Component(seconds, "S") ELSE "")

(* C14: for n >= 0 the text returned is "PT", the hours n div 3600 when    *)
(* not 0, the minutes (n mod 3600) div 60 when not 0, and the seconds      *)
(* n mod 60 when not 0 or when hours and minutes are both 0; 0, 59, 3661   *)
(* and 3665 give "PT0S", "PT59S", "PT1H1M1S" and "PT1H1M5S".               *)
TheoremC14 ==
    (durText # None /\ durSeconds >= 0) =>
        /\ durText.text = DurationForm(durSeconds \div 3600,
                                       (durSeconds % 3600) \div 60,
                                       durSeconds % 60)
        /\ durSeconds = 0 => durText.text = "PT0S"
        /\ durSeconds = 59 => durText.text = "PT59S"
        /\ durSeconds = 3661 => durText.text = "PT1H1M1S"
        /\ durSeconds = 3665 => durText.text = "PT1H1M5S"

WitnessC14 == durSeconds = 3665 /\ durText = [text |-> "PT1H1M5S"]

-----------------------------------------------------------------------------
(* Analytics reads: the user filter and the query                          *)

UpperChars == <<"A", "B", "C", "D", "E", "F", "G", "H", "I", "J", "K", "L", "M",
                "N", "O", "P", "Q", "R", "S", "T", "U", "V", "W", "X", "Y", "Z">>

LowerChars == <<"a", "b", "c", "d", "e", "f", "g", "h", "i", "j", "k", "l", "m",
                "n", "o", "p", "q", "r", "s", "t", "u", "v", "w", "x", "y", "z">>

(* str.lower(), character by character.                                    *)
lower(cs) ==
    [i \in 1..Len(cs) |->
        IF \E k \in 1..26 : UpperChars[k] = cs[i]
        THEN LowerChars[CHOOSE k \in 1..26 : UpperChars[k] = cs[i]]
        ELSE cs[i]]

(* The string a sequence of characters spells.                             *)
RECURSIVE Text(_)
Text(cs) == IF cs = <<>> THEN "" ELSE Head(cs) \o Text(Tail(cs))

(* AppRequest.user, Optional[str]: None, or the characters supplied.       *)
Supplied(cs) == [text |-> cs]

UserFilters ==
    {None, Supplied(<<>>), Supplied(<<"a", "l", "l">>), Supplied(<<"A", "L", "L">>),
     Supplied(<<"A", "l", "l">>), Supplied(<<"u", "1">>), Supplied(<<"U", "1">>),
     Supplied(<<"u", "2">>)}

AppRequests == [app : Apps, user : UserFilters]

(* query_filter = {"app": app}, with query_filter[user_field] = user added *)
(* `if user and user.lower() != 'all'`.                                     *)
query_filter(app, user, user_field) ==
    IF user # None /\ user.text # <<>> /\ Text(lower(user.text)) # "all"
    THEN [f \in {"app", user_field} |-> IF f = "app" THEN app ELSE Text(user.text)]
    ELSE [f \in {"app"} |-> app]

(* collection.find(query_filter).to_list(None)                             *)
find(collection, filter) ==
    SelectSeq(collection, LAMBDA doc : \A f \in DOMAIN filter : doc[f] = filter[f])

-----------------------------------------------------------------------------
(* Session summary                                                         *)

(* A number with two decimals is kept as its count of hundredths.          *)
(* round(num / den, 2) for den > 0: to the nearest hundredth, a tie to the *)
(* even one (no tie arises while den < 8).                                 *)
round2_Truncates(num, den) == (100 * num) \div den

round2(num, den) ==
    LET q == (100 * num) \div den
        r == (100 * num) - (q * den)
    IN IF 2 * r < den THEN q
       ELSE IF 2 * r > den THEN q + 1
       ELSE IF q % 2 = 0 THEN q ELSE q + 1

(* int(num / den) for den > 0: toward zero.                                *)
int_of_quotient(num, den) ==
    IF num >= 0 THEN num \div den ELSE 0 - ((0 - num) \div den)

RECURSIVE sum_total_active_time(_)
sum_total_active_time(docs) ==
    IF docs = <<>> THEN 0
    ELSE Head(docs).total_active_time + sum_total_active_time(Tail(docs))

get_session_summary(collection, app, user) ==
    LET found == find(collection, query_filter(app, user, "username"))
        total_sessions == Len(found)
        total_sessions_time_seconds == sum_total_active_time(found)
    IN IF found = <<>>
       THEN [total_sessions |-> 0,
             total_sessions_time |-> "PT0S",
             total_sessions_time_seconds |-> 0,
             total_sessions_time_minutes |-> 0,
             avg_sessions_time |-> "PT0S",
             avg_sessions_time_seconds |-> 0,
             avg_sessions_time_minutes |-> 0]
       ELSE [total_sessions |-> total_sessions,
             total_sessions_time |-> seconds_to_iso_duration(total_sessions_time_seconds),
             total_sessions_time_seconds |-> total_sessions_time_seconds,
             total_sessions_time_minutes |-> round2(total_sessions_time_seconds, 60),
             avg_sessions_time |->
                 seconds_to_iso_duration(
                     int_of_quotient(total_sessions_time_seconds, total_sessions)),
             avg_sessions_time_seconds |->
                 round2(total_sessions_time_seconds, total_sessions),
             avg_sessions_time_minutes |->
                 round2(total_sessions_time_seconds, total_sessions * 60)]

(* The sessions a summary is read over: each started by one client and     *)
(* paused `active` seconds later, one request after another.               *)
ReadClock == [y |-> 2024, mo |-> 1, d |-> 1, h |-> 0, mi |-> 0, s |-> 0]

ActiveSeconds == {0, 5, 30}

SessionSeeds == [user : Users, app : Apps, active : ActiveSeconds]

StartedAndPaused(store, seed, now) ==
    LET started == StartCall(store,
                             [user |-> seed.user, time |-> ClientTime(ReadClock, 0),
                              status |-> "active", app |-> seed.app],
                             now)
    IN PauseCall(started.store,
                 [user |-> seed.user,
                  session_id |-> started.response.body.session_id,
                  time |-> ClientTime(ReadClock, seed.active),
                  app |-> seed.app]).store

RECURSIVE SeededStore(_, _)
SeededStore(seeds, now) ==
    IF seeds = <<>> THEN <<>>
    ELSE StartedAndPaused(SeededStore(SubSeq(seeds, 1, Len(seeds) - 1), now),
                          seeds[Len(seeds)], now)

InitSummary ==
    /\ \E seeds \in SeqsUpTo(SessionSeeds, MaxReadSessions) : \E now \in ServerNow :
          sessions = SeededStore(seeds, now)
    /\ pending = EmptyBag
    /\ pageTracks = <<>>
    /\ lastRead = None
    /\ CalcIdle /\ ScriptIdle /\ DurationIdle /\ AuthIdle

(* POST /summary: nothing stored changes; the request and the result are   *)
(* what the client is left with.                                           *)
SummaryRead(app_data) ==
    /\ lastRead = None
    /\ lastRead' = [op |-> "summary",
                    request |-> app_data,
                    result |-> get_session_summary(sessions, app_data.app, app_data.user)]
    /\ UNCHANGED <<sessions, pending, pageTracks, calcVars, script, lastResponse,
                   durSeconds, durText, authToken, authUser>>

NextSummary == \E app_data \in AppRequests : SummaryRead(app_data)

SpecSummary == InitSummary /\ [][NextSummary]_vars

(* The sessions of the app the request names that pass its user filter.    *)
SummaryMatching == find(sessions, query_filter(lastRead.request.app,
                                               lastRead.request.user, "username"))

RECURSIVE SumOver(_, _)
SumOver(docs, k) ==
    IF k = 0 THEN 0 ELSE SumOver(docs, k - 1) + docs[k].total_active_time

SummaryOfNone(r) ==
    /\ r.total_sessions = 0
    /\ r.total_sessions_time_seconds = 0
    /\ r.avg_sessions_time_seconds = 0
    /\ r.total_sessions_time = "PT0S"
    /\ r.avg_sessions_time = "PT0S"

(* k is the integer part of total / n, for total >= 0.                     *)
IsIntegerPart(k, total, n) == k * n <= total /\ total < (k + 1) * n

ClaimC16 ==
    \A q \in AppRequests :
        q.user # None =>
            find(sessions, query_filter(q.app, q.user, "username"))
                = SelectSeq(sessions,
                            LAMBDA doc :
                                /\ doc.app = q.app
                                /\ \/ q.user.text \in {<<"a", "l", "l">>, <<"A", "L", "L">>,
                                                        <<"A", "l", "l">>}
                                   \/ doc.username = Text(q.user.text))

-----------------------------------------------------------------------------
(* Page tracking and time by page.  A page identifier is a sequence of     *)
(* characters, so that the sort compares what Python compares.             *)

PageHome == <<"/", "h", "o", "m", "e">>
PageAbout == <<"/", "a", "b", "o", "u", "t">>
PageHomeCapital == <<"/", "H", "o", "m", "e">>

Pages == {PageHome, PageAbout, PageHomeCapital}

TimesSpent == {10, 20}

PageTrackRequests == [user : Users, page : Pages, timespent : TimesSpent, app : Apps]

PageTrackRequest(data) == validate_user(data.user)

PageTrackDB(page, timespent, timestamp, user_id, app) ==
    [page |-> page, timespent |-> timespent, timestamp |-> timestamp,
     user_id |-> user_id, app |-> app]

track_page(collection, page_data, now) ==
    insert_one(collection,
               PageTrackDB(page_data.page, page_data.timespent, now,
                           page_data.user, page_data.app))

(* ord(c) of the characters page identifiers are written with.             *)
ord(c) ==
    IF c = "/" THEN 47
    ELSE IF IsDigit(c) THEN 48 + DigitVal(c)
    ELSE IF \E k \in 1..26 : UpperChars[k] = c
    THEN 64 + (CHOOSE k \in 1..26 : UpperChars[k] = c)
    ELSE 96 + (CHOOSE k \in 1..26 : LowerChars[k] = c)

(* a < b on str: at the first position where they differ the character of  *)
(* a has the lower code point, or a is a proper prefix of b.               *)
str_less(a, b) ==
    \E i \in 1..(Len(b)) :
        /\ i <= Len(a) + 1
        /\ \A j \in 1..(i - 1) : a[j] = b[j]
        /\ (i = Len(a) + 1) \/ (ord(a[i]) < ord(b[i]))

(* sorted(keys): ascending.                                                *)
RECURSIVE sorted(_)
sorted(keys) ==
    IF keys = {} THEN <<>>
    ELSE LET least == CHOOSE k \in keys : \A other \in keys \ {k} : str_less(k, other)
         IN <<least>> \o sorted(keys \ {least})

(* The loop body with `=` where the code has `+=` on total_time.           *)
count_visit_Overwrites(page_times, visit) ==
    LET before == IF visit.page \in DOMAIN page_times THEN page_times[visit.page]
                  ELSE [total_time |-> 0, visit_count |-> 0]
    IN [page \in DOMAIN page_times \cup {visit.page} |->
           IF page = visit.page
           THEN [total_time |-> visit.timespent,
                 visit_count |-> before.visit_count + 1]
           ELSE page_times[page]]

(* The loop body: page_times is the defaultdict, a function on the pages   *)
(* seen so far.                                                            *)
count_visit(page_times, visit) ==
    LET before == IF visit.page \in DOMAIN page_times THEN page_times[visit.page]
                  ELSE [total_time |-> 0, visit_count |-> 0]
    IN [page \in DOMAIN page_times \cup {visit.page} |->
           IF page = visit.page
           THEN [total_time |-> before.total_time + visit.timespent,
                 visit_count |-> before.visit_count + 1]
           ELSE page_times[page]]

RECURSIVE count_visits(_, _)
count_visits(page_times, page_visits) ==
    IF page_visits = <<>> THEN page_times
    ELSE count_visits(count_visit(page_times, Head(page_visits)), Tail(page_visits))

get_time_by_page(collection, app, user) ==
    LET page_visits == find(collection, query_filter(app, user, "user_id"))
        page_times == count_visits([page \in {} |-> 0], page_visits)
        order == sorted(DOMAIN page_times)
        result == [k \in 1..Len(order) |->
                      [page |-> order[k],
                       total_time_seconds |-> page_times[order[k]].total_time,
                       total_time_formatted |->
                           seconds_to_iso_duration(page_times[order[k]].total_time),
                       total_time_minutes |-> round2(page_times[order[k]].total_time, 60),
                       visit_count |-> page_times[order[k]].visit_count]]
    IN [page_time |-> result, total_pages |-> Len(result)]

InitPages ==
    /\ sessions = <<>>
    /\ pending = EmptyBag
    /\ pageTracks = <<>>
    /\ lastRead = None
    /\ CalcIdle /\ ScriptIdle /\ DurationIdle /\ AuthIdle

(* POST /track.  The read examined is the last request served.             *)
TrackPage(page_data) ==
    /\ lastRead = None
    /\ Len(pageTracks) < MaxVisits
    /\ PageTrackRequest(page_data)
    /\ \E now \in ServerNow : pageTracks' = track_page(pageTracks, page_data, now)
    /\ UNCHANGED <<sessions, pending, calcVars, script, lastResponse,
                   durSeconds, durText, lastRead, authToken, authUser>>

(* POST /time-by-page                                                      *)
TimeByPageRead(app_data) ==
    /\ lastRead = None
    /\ lastRead' = [op |-> "time-by-page",
                    request |-> app_data,
                    result |-> get_time_by_page(pageTracks, app_data.app, app_data.user)]
    /\ UNCHANGED <<sessions, pending, pageTracks, calcVars, script, lastResponse,
                   durSeconds, durText, authToken, authUser>>

NextPages ==
    \/ \E page_data \in PageTrackRequests : TrackPage(page_data)
    \/ \E app_data \in AppRequests : TimeByPageRead(app_data)

SpecPages == InitPages /\ [][NextPages]_vars

(* The page visits of the app the request names that pass its user filter. *)
VisitsMatching == find(pageTracks, query_filter(lastRead.request.app,
                                                lastRead.request.user, "user_id"))

VisitsTo(page) == {i \in 1..Len(VisitsMatching) : VisitsMatching[i].page = page}

RECURSIVE TimeSpentOver(_)
TimeSpentOver(indices) ==
    IF indices = {} THEN 0
    ELSE LET i == CHOOSE k \in indices : TRUE
         IN VisitsMatching[i].timespent + TimeSpentOver(indices \ {i})

(* C17: a time-by-page read returns one entry for each distinct page among *)
(* the matching visits and no other, each with the sum of that page's      *)
(* visit durations and the number of its visits, in ascending order of the *)
(* page identifier, total_pages being the number of entries; two visits to *)
(* "/home" of 10 and 20 seconds give one entry with total 30 and count 2.  *)
TheoremC17 ==
    lastRead # None =>
        LET entries == lastRead.result.page_time
            n == Len(entries)
        IN /\ lastRead.result.total_pages = n
           /\ {entries[k].page : k \in 1..n}
                 = {VisitsMatching[i].page : i \in 1..Len(VisitsMatching)}
           /\ \A k \in 1..n :
                 /\ entries[k].total_time_seconds = TimeSpentOver(VisitsTo(entries[k].page))
                 /\ entries[k].visit_count = Cardinality(VisitsTo(entries[k].page))
           /\ \A j \in 1..n, k \in 1..n :
                 j < k => str_less(entries[j].page, entries[k].page)
           /\ (/\ Len(VisitsMatching) = 2
               /\ VisitsTo(PageHome) = {1, 2}
               /\ {VisitsMatching[1].timespent, VisitsMatching[2].timespent} = {10, 20})
                 => /\ n = 1
                    /\ entries[1].page = PageHome
                    /\ entries[1].total_time_seconds = 30
                    /\ entries[1].visit_count = 2

WitnessC17 ==
    /\ lastRead # None
    /\ Len(pageTracks) = 2
    /\ pageTracks[1].user_id # pageTracks[2].user_id
    /\ lastRead.request.user = None
    /\ lastRead.result.total_pages = 1
    /\ lastRead.result.page_time[1].page = PageHome
    /\ lastRead.result.page_time[1].total_time_seconds = 30
    /\ lastRead.result.page_time[1].visit_count = 2

-----------------------------------------------------------------------------
(* Authentication.  A bearer token is the sequence of its dot-separated    *)
(* segments.  A header or payload segment is decoded (base64url, then      *)
(* JSON) by looking it up: a JSON object holds its members in document     *)
(* order, each [key, value], a value being [str |-> s] or [int |-> n];     *)
(* None stands for a segment that does not decode.                         *)

Object(members) == [members |-> members]

Member(key, value) == [key |-> key, value |-> value]

JsonStr(s) == [str |-> s]

JsonInt(n) == [int |-> n]

(* datetime.utcnow().timestamp(), and expiry times on either side of it.   *)
AuthClock == 1000
Expired == 500
NotExpired == 2000

HeaderSegments == {"hHS256", "hNone"}

HeaderOf(segment) ==
    IF segment = "hHS256" THEN Object(<<Member("alg", JsonStr("HS256")), Member("typ", JsonStr("JWT"))>>)
    ELSE IF segment = "hNone" THEN Object(<<Member("alg", JsonStr("none")), Member("typ", JsonStr("JWT"))>>)
    ELSE None

PayloadSegments ==
    {"pSub", "pUsername", "pEmail", "pUserIdInt", "pUserId", "pUsernameSub",
     "pSubExpired", "pSubInt", "pName", "pNoUser", "pGarbage"}

PayloadOf(segment) ==
    CASE segment = "pSub" ->
           Object(<<Member("sub", JsonStr("test_user")), Member("exp", JsonInt(NotExpired))>>)
      [] segment = "pUsername" -> Object(<<Member("username", JsonStr("bob"))>>)
      [] segment = "pEmail" -> Object(<<Member("role", JsonStr("admin")), Member("email", JsonStr("c@x.io"))>>)
      [] segment = "pUserIdInt" -> Object(<<Member("user_id", JsonInt(7))>>)
      [] segment = "pUserId" -> Object(<<Member("userId", JsonStr("dave"))>>)
      [] segment = "pUsernameSub" ->
           Object(<<Member("username", JsonStr("bob")), Member("sub", JsonStr("alice"))>>)
      [] segment = "pSubExpired" ->
           Object(<<Member("sub", JsonStr("alice")), Member("exp", JsonInt(Expired))>>)
      [] segment = "pSubInt" -> Object(<<Member("sub", JsonInt(42))>>)
      [] segment = "pName" -> Object(<<Member("exp", JsonInt(NotExpired)), Member("name", JsonStr("erin"))>>)
      [] segment = "pNoUser" -> Object(<<Member("exp", JsonInt(NotExpired))>>)
      [] OTHER -> None

SECRET_KEY == "your-secret-key-change-this-in-production"

ALGORITHM == "HS256"

(* The signature segment: the MAC of "header.payload" under a key.         *)
Sign(header, payload, key) == "mac(" \o key \o ":" \o header \o "." \o payload \o ")"

SignatureSegments(header, payload) ==
    {Sign(header, payload, SECRET_KEY), Sign(header, payload, "another-key"),
     "test_signature"}

Tokens ==
    UNION {{<<h, p, sig>> : sig \in SignatureSegments(h, p)} :
              h \in HeaderSegments, p \in PayloadSegments}
        \cup {<<"hHS256", p>> : p \in PayloadSegments}

HasKey(object, key) == \E i \in 1..Len(object.members) : object.members[i].key = key

Get(object, key) ==
    object.members[CHOOSE i \in 1..Len(object.members) : object.members[i].key = key].value

IsStr(value) == "str" \in DOMAIN value

(* str(value)                                                              *)
str(value) == IF IsStr(value) THEN value.str ELSE ToString(value.int)

UserClaimKeys == <<"sub", "username", "email", "user_id", "userId">>

AuthOk(user) == [ok |-> TRUE, user |-> user]

(* The two loops over a payload: the first of the user claim keys it has,  *)
(* else its first string value, else nothing (None).                       *)
user_of_payload(payload) ==
    LET present == {k \in 1..Len(UserClaimKeys) : HasKey(payload, UserClaimKeys[k])}
        strings == {i \in 1..Len(payload.members) : IsStr(payload.members[i].value)}
    IN IF present # {}
       THEN AuthOk(str(Get(payload,
                           UserClaimKeys[CHOOSE k \in present : \A j \in present : k <= j])))
       ELSE IF strings # {}
       THEN AuthOk(payload.members[CHOOSE i \in strings : \A j \in strings : i <= j].value.str)
       ELSE None

(* jose.jwt.decode(token, key, algorithms=[ALGORITHM]): the payload, or    *)
(* None for a JWTError: not three segments, a header that does not decode  *)
(* or names another algorithm, a signature that is not the MAC under key,  *)
(* a payload that does not decode, an exp that is not in the future, a sub *)
(* that is not a string.                                                   *)
jwt_decode(token, key) ==
    IF Len(token) # 3 THEN None
    ELSE LET header == HeaderOf(token[1])
             payload == PayloadOf(token[2])
         IN IF header = None THEN None
            ELSE IF str(Get(header, "alg")) # ALGORITHM THEN None
            ELSE IF token[3] # Sign(token[1], token[2], key) THEN None
            ELSE IF payload = None THEN None
            ELSE IF HasKey(payload, "exp") /\ Get(payload, "exp").int < AuthClock THEN None
            ELSE IF HasKey(payload, "sub") /\ ~IsStr(Get(payload, "sub")) THEN None
            ELSE payload

(* JWTHelper.decode_jwt_payload: the payload, or None for its ValueError.  *)
decode_jwt_payload(token) ==
    IF Len(token) # 3 THEN None ELSE PayloadOf(token[2])

(* JWTHelper.extract_user_from_token: the user, or None for its ValueError *)
extract_user_from_token(token) ==
    LET payload == decode_jwt_payload(token)
    IN IF payload = None THEN None ELSE user_of_payload(payload)

(* AuthUtils.verify_token: the payload, or the 401 raised.  On a JWTError  *)
(* every path of the handler ends in an HTTPException 401 (the detailed    *)
(* ones are raised inside a try whose bare except raises the generic one). *)
verify_token(token) ==
    LET payload == jwt_decode(token, SECRET_KEY)
    IN IF payload = None THEN Raised(401) ELSE [ok |-> TRUE, payload |-> payload]

(* get_current_user_from_token with `except HTTPException` re-raising.     *)
get_current_user_from_token_NoFallback(token) ==
    LET verified == verify_token(token)
        found == IF verified.ok THEN user_of_payload(verified.payload) ELSE None
    IN IF found # None THEN found ELSE Raised(401)

get_current_user_from_token(token) ==
    LET verified == verify_token(token)
        found == IF verified.ok THEN user_of_payload(verified.payload) ELSE None
        extracted == extract_user_from_token(token)
    IN IF found # None THEN found
       ELSE IF extracted # None THEN extracted
       ELSE Raised(401)

InitAuth ==
    /\ sessions = <<>>
    /\ pending = EmptyBag
    /\ pageTracks = <<>>
    /\ authToken \in Tokens
    /\ authUser = None
    /\ CalcIdle /\ ScriptIdle /\ DurationIdle /\ ReadIdle

(* The get_current_user dependency of a route.                             *)
Authenticate ==
    /\ authUser = None
    /\ authUser' = get_current_user_from_token(authToken)
    /\ UNCHANGED <<sessions, pending, pageTracks, calcVars, script, lastResponse,
                   durSeconds, durText, lastRead, authToken>>

NextAuth == Authenticate

SpecAuth == InitAuth /\ [][NextAuth]_vars

SignatureVerifies(token) == token[3] = Sign(token[1], token[2], SECRET_KEY)

CarriesUserClaim(payload) ==
    payload # None /\ \E k \in 1..Len(UserClaimKeys) : HasKey(payload, UserClaimKeys[k])

FirstUserClaim(payload) ==
    LET k == CHOOSE k \in 1..Len(UserClaimKeys) :
                 /\ HasKey(payload, UserClaimKeys[k])
                 /\ \A j \in 1..(k - 1) : ~HasKey(payload, UserClaimKeys[j])
    IN Get(payload, UserClaimKeys[k])

(* C18: a three-segment token whose signature does not verify, with a      *)
(* payload that decodes and carries a user claim, is accepted and the      *)
(* claim is returned as the user; a token with the same payload signed     *)
(* with the server's key yields the same user.                             *)
TheoremC18 ==
    (/\ authUser # None
     /\ Len(authToken) = 3
     /\ ~SignatureVerifies(authToken)
     /\ CarriesUserClaim(PayloadOf(authToken[2]))) =>
        /\ authUser = AuthOk(str(FirstUserClaim(PayloadOf(authToken[2]))))
        /\ \A other \in Tokens :
              (/\ Len(other) = 3
               /\ other[2] = authToken[2]
               /\ other[1] = "hHS256"
               /\ SignatureVerifies(other))
                  => get_current_user_from_token(other) = authUser

WitnessC18 ==
    /\ authToken = <<"hHS256", "pSub", "test_signature">>
    /\ authUser = AuthOk("test_user")
    /\ get_current_user_from_token(<<"hHS256", "pSub", Sign("hHS256", "pSub", SECRET_KEY)>>)
          = AuthOk("test_user")
    /\ verify_token(authToken) = Raised(401)

-----------------------------------------------------------------------------
(* The event log of a session, under concurrent requests                   *)

(* C19: every stored session has at least one event, its first event is    *)
(* the ACTIVE event of its creation (at the parsed client time of the      *)
(* start request), and its last event has the session's current status.    *)
TheoremC19 ==
    \A i \in 1..Len(sessions) :
        LET evs == sessions[i].events
        IN /\ evs # <<>>
           /\ evs[1].status = ACTIVE
           /\ evs[1].timestamp = TimeOf(evs[1].event_time)
           /\ evs[Len(evs)].status = sessions[i].status

WitnessC19 ==
    \E i \in 1..Len(sessions) :
        /\ Statuses(sessions[i].events) = <<ACTIVE, ENDED, PAUSED>>
        /\ sessions[i].status = PAUSED
        /\ sessions[i].ended_at # None

IsPrefix(a, b) == Len(a) <= Len(b) /\ SubSeq(b, 1, Len(a)) = a

(* The stored sessions after a request served alone: one of them has one   *)
(* more event, the others are as they were.                                *)
OneEventAppended(before, after) ==
    /\ Len(after) = Len(before)
    /\ \E i \in 1..Len(before) :
          /\ Len(after[i].events) = Len(before[i].events) + 1
          /\ IsPrefix(before[i].events, after[i].events)
          /\ OthersUnchanged(before, after, i)

AppendsOrFails(served) ==
    IF served.response.status_code = 200
    THEN OneEventAppended(sessions, served.store)
    ELSE served.store = sessions

(* Every step keeps each session's events as a prefix of its events after  *)
(* the step, and a step that issues an update appends exactly one event.   *)
EventsOnlyAppended ==
    /\ Len(sessions') >= Len(sessions)
    /\ \A i \in 1..Len(sessions) :
          IsPrefix(sessions[i].events, sessions'[i].events)
    /\ BagCardinality(pending') < BagCardinality(pending)
          => OneEventAppended(sessions, sessions')

(* C20: the event log is append-only: across every step, of sequential or  *)
(* concurrent requests, each session's events before the step are a prefix *)
(* of its events after it; a successful pause, resume or end appends       *)
(* exactly one event and a failed one changes nothing.                     *)
TheoremC20 ==
    /\ [][EventsOnlyAppended]_vars
    /\ [](\A r \in OperationRequests : \A now \in ServerNow :
             /\ AppendsOrFails(PauseCall(sessions, r))
             /\ AppendsOrFails(ResumeCall(sessions, r))
             /\ AppendsOrFails(EndCall(sessions, r, now)))

WitnessC20 ==
    \E i \in 1..Len(sessions) : \E p \in BagToSet(pending) :
        /\ Statuses(sessions[i].events) = <<ACTIVE, PAUSED>>
        /\ p.session_id = sessions[i].session_id
        /\ p.op = "end"
        /\ \E r \in OperationRequests :
              /\ r.session_id = p.session_id
              /\ r.app = sessions[i].app
              /\ PauseCall(sessions, r).response.status_code = 404

-----------------------------------------------------------------------------
(* Two pauses of one session, both past their find_one                     *)

PositionOf(store, session_id) ==
    CHOOSE i \in 1..Len(store) : store[i].session_id = session_id

LastTwo(seq) == SubSeq(seq, Len(seq) - 1, Len(seq))

(* p and q are the pending updates of two different pause requests on the  *)
(* same session: each was issued after a find_one that returned the        *)
(* session with status ACTIVE.                                             *)
TwoPausesPending(p, q) ==
    /\ p.op = "pause" /\ q.op = "pause"
    /\ p.session_id = q.session_id
    /\ (p # q \/ CopiesIn(p, pending) >= 2)

(* C21: two pause requests on one session that have both read it ACTIVE    *)
(* both succeed: whichever update is written first, the second is written  *)
(* too, and the session's events then end with two PAUSED events, one of   *)
(* each request; a session holding two consecutive PAUSED events is        *)
(* reachable.                                                              *)
TheoremC21 ==
    \A p \in BagToSet(pending) : \A q \in BagToSet(pending) :
        TwoPausesPending(p, q) =>
            LET i == PositionOf(sessions, p.session_id)
                first == pause_session_update(sessions, p)
                both == pause_session_update(first, q)
            IN /\ first[i].events = Append(sessions[i].events, p.new_event)
               /\ both[i].events = sessions[i].events \o <<p.new_event, q.new_event>>
               /\ Statuses(LastTwo(both[i].events)) = <<PAUSED, PAUSED>>
               /\ both[i].status = PAUSED
               /\ both[i].total_active_time = q.active_time

WitnessC21 ==
    \E i \in 1..Len(sessions) :
        /\ Statuses(sessions[i].events) = <<ACTIVE, PAUSED, PAUSED>>
        /\ sessions[i].status = PAUSED
        /\ pending = EmptyBag

-----------------------------------------------------------------------------
(* Client times that go back                                               *)

(* The stored accrued time of session i after the request is served alone. *)
TotalAfter(served, i) == served.store[i].total_active_time

(* C22: nothing clamps the accrued active-time at zero: a pause or end     *)
(* whose client time is earlier than the ACTIVE event that opened the      *)
(* interval adds the negative difference to the closed intervals before    *)
(* it, so a session started at t and paused or ended at t-k (k > 0 whole   *)
(* seconds) has accrued active-time -k.                                    *)
TheoremC22 ==
    \A r \in OperationRequests : \A now \in ServerNow :
        r.time \in ValidTimes =>
            \A i \in Found(sessions, r, {ACTIVE}) :
                LET evs == sessions[i].events
                    opened == evs[Len(evs)].timestamp
                    before == ClosedIntervalMillis(evs, Len(evs))
                    diff == MillisBetween(TimeOf(r.time), opened)
                    k == MillisBetween(opened, TimeOf(r.time)) \div 1000
                IN /\ TotalAfter(PauseCall(sessions, r), i) * 1000 = before + diff
                   /\ TotalAfter(EndCall(sessions, r, now), i) * 1000 = before + diff
                   /\ (Len(evs) = 1 /\ k > 0) =>
                         /\ TotalAfter(PauseCall(sessions, r), i) = 0 - k
                         /\ TotalAfter(EndCall(sessions, r, now), i) = 0 - k

WitnessC22 ==
    \E i \in 1..Len(sessions) :
        LET evs == sessions[i].events
        IN /\ Statuses(evs) = <<ACTIVE, ENDED>>
           /\ MillisBetween(evs[1].timestamp, evs[2].timestamp) = 30000
           /\ sessions[i].total_active_time = 0 - 30
           /\ sessions[i].status = ENDED

-----------------------------------------------------------------------------
(* The replay of events whose client times carry milliseconds              *)

MilliEventSet ==
    {SessionEvent(TimeChecked[t].parsed.dt, st, t) : t \in MilliTimes, st \in SessionStatus}

InitMillis ==
    /\ sessions = <<>>
    /\ pending = EmptyBag
    /\ pageTracks = <<>>
    /\ ScriptIdle /\ DurationIdle /\ ReadIdle /\ AuthIdle
    /\ calcEvents \in SeqsUpTo(MilliEventSet, MaxCalcLen)
    /\ calcNew \in MilliEventSet \cup {None}
    /\ calcInput = calcEvents
    /\ calcResults = <<>>

SpecMillis == InitMillis /\ [][NextCalc]_vars

(* The sum over the closed intervals of each (close - open) difference cut *)
(* to whole seconds on its own.                                            *)
RECURSIVE TruncatedIntervalSeconds(_, _)
TruncatedIntervalSeconds(evs, j) ==
    IF j = 0 THEN 0
    ELSE TruncatedIntervalSeconds(evs, j - 1)
           + (IF ClosesInterval(evs, j)
              THEN LET ms == MillisBetween(evs[j].timestamp,
                                           evs[MostRecentActive(evs, j)].timestamp)
                   IN IF ms >= 0 THEN ms \div 1000 ELSE 0 - ((0 - ms) \div 1000)
              ELSE 0)

Abs(n) == IF n >= 0 THEN n ELSE 0 - n

(* n is ms / 1000 cut toward zero.                                         *)
IsTruncationOf(n, ms) ==
    /\ Abs(n) * 1000 <= Abs(ms)
    /\ Abs(ms) < (Abs(n) * 1000) + 1000
    /\ n * ms >= 0

(* C23 as stated: the value returned is the sum of the intervals' values,  *)
(* each cut to whole seconds before it is added.                           *)
ClaimC23 ==
    \A k \in 1..Len(calcResults) :
        calcResults[k] = TruncatedIntervalSeconds(Replayed, Len(Replayed))

(* C23, amended: the (close - open) differences are added as they are, and *)
(* the running total is cut toward zero to whole seconds once, when the    *)
(* replay returns.                                                         *)
TheoremC23 ==
    \A k \in 1..Len(calcResults) :
        IsTruncationOf(calcResults[k], ClosedIntervalMillis(Replayed, Len(Replayed)))

WitnessC23 ==
    /\ Len(calcResults) = 1
    /\ Statuses(Replayed) = <<ACTIVE, PAUSED, ACTIVE, ENDED>>
    /\ MillisBetween(Replayed[2].timestamp, Replayed[1].timestamp) = 500
    /\ MillisBetween(Replayed[4].timestamp, Replayed[3].timestamp) = 750
    /\ calcResults[1] = 1
    /\ TruncatedIntervalSeconds(Replayed, 4) = 0

-----------------------------------------------------------------------------
(* The replay, one event more                                              *)

(* An interval is open after the first j events.                           *)
IntervalOpen(evs, j) ==
    \E i \in 1..j :
        /\ evs[i].status = ACTIVE
        /\ \A k \in (i + 1)..j : ~IsClosing(evs[k].status)

(* C24: the value the replay returns for a list, against the value it      *)
(* returns for the list without its last event: an ACTIVE event adds       *)
(* nothing and, when an interval is open, restarts it, so that the next    *)
(* closing event counts from the latest ACTIVE event only; a PAUSED or     *)
(* ENDED event with no interval open adds nothing; the replay returns a    *)
(* number in every case.                                                   *)
TheoremC24 ==
    \A k \in 1..Len(calcResults) :
        /\ calcResults[k] \in Int
        /\ Replayed # <<>> =>
              LET n == Len(Replayed)
                  last == Replayed[n]
                  without == calculate_session_active_time(SubSeq(Replayed, 1, n - 1), None)
              IN /\ last.status = ACTIVE => calcResults[k] = without
                 /\ (IsClosing(last.status) /\ ~IntervalOpen(Replayed, n - 1))
                       => calcResults[k] = without
                 /\ (IsClosing(last.status) /\ IntervalOpen(Replayed, n - 1))
                       => (calcResults[k] - without) * 1000
                            = MillisBetween(last.timestamp,
                                            Replayed[MostRecentActive(Replayed, n)].timestamp)

WitnessC24 ==
    /\ Len(calcResults) = 1
    /\ Statuses(Replayed) = <<ACTIVE, ACTIVE, PAUSED, ENDED>>
    /\ MillisBetween(Replayed[1].timestamp, Replayed[2].timestamp) = 30000
    /\ MillisBetween(Replayed[3].timestamp, Replayed[2].timestamp) = 30000
    /\ MillisBetween(Replayed[4].timestamp, Replayed[3].timestamp) = 0 - 30000
    /\ calcResults[1] = 30

-----------------------------------------------------------------------------
(* The shape of a session's history when requests do not overlap           *)

(* ACTIVE, then (PAUSED, ACTIVE) pairs, then an optional PAUSED, then an   *)
(* optional ENDED: ACTIVE at the odd places and PAUSED at the even ones,   *)
(* except that the last place, if not the first, may hold ENDED.           *)
Alternates(st) ==
    /\ st # <<>>
    /\ \A j \in 1..Len(st) :
          IF st[j] = ENDED THEN j = Len(st) /\ j > 1
          ELSE st[j] = (IF j % 2 = 1 THEN ACTIVE ELSE PAUSED)

(* C25: with requests served one after another, every session's event     *)
(* statuses are ACTIVE, (PAUSED, ACTIVE)*, [PAUSED], [ENDED]: no two        *)
(* consecutive events share a status, there is at most one ENDED event     *)
(* and it is the last.                                                     *)
TheoremC25 ==
    \A i \in 1..Len(sessions) :
        LET st == Statuses(sessions[i].events)
        IN /\ Alternates(st)
           /\ \A j \in 1..(Len(st) - 1) : st[j] # st[j + 1]
           /\ Cardinality({j \in 1..Len(st) : st[j] = ENDED}) <= 1
           /\ \A j \in 1..(Len(st) - 1) : st[j] # ENDED

WitnessC25 ==
    \E i \in 1..Len(sessions) :
        /\ Statuses(sessions[i].events) = <<ACTIVE, ENDED>>
        /\ pending = EmptyBag
        /\ EventRoom
        /\ \A r \in OperationRequests : \A now \in ServerNow :
              r.session_id = sessions[i].session_id =>
                  /\ PauseCall(sessions, r).store = sessions
                  /\ ResumeCall(sessions, r).store = sessions
                  /\ EndCall(sessions, r, now).store = sessions

-----------------------------------------------------------------------------
(* The end timestamp                                                       *)

(* C26: in every reachable state, of sequential or concurrent requests, a  *)
(* session has an end timestamp exactly when its status is ENDED.          *)
ClaimC26 ==
    \A i \in 1..Len(sessions) :
        (sessions[i].ended_at # None) <=> (sessions[i].status = ENDED)

-----------------------------------------------------------------------------
(* One started session and the concurrent pauses, resumes and ends of it,  *)
(* with room for a history of MaxRaceEvents events.                        *)

RaceStart ==
    [user |-> "u1", time |-> T0, status |-> "active", app |-> "app1"]

RaceRequests ==
    {r \in OperationRequests :
        r.user = "u1" /\ r.session_id = SessionIdPool[1] /\ r.app = "app1"
            /\ r.time \in ValidTimes}

InitRace ==
    /\ \E now \in ServerNow : sessions = StartCall(<<>>, RaceStart, now).store
    /\ pending = EmptyBag
    /\ pageTracks = <<>>
    /\ CalcIdle /\ ScriptIdle /\ DurationIdle /\ ReadIdle /\ AuthIdle

(* A request past its find_one; one that finds no session changes nothing. *)
RaceFind(out) ==
    /\ BagCardinality(pending) < MaxInflight
    /\ out.kind = "update"
    /\ TotalEvents(sessions) + BagCardinality(pending) < MaxRaceEvents
    /\ pending' = pending (+) SetToBag({out})
    /\ UNCHANGED <<sessions, otherVars>>

NextRace ==
    \/ \E session_data \in RaceRequests : RaceFind(pause_session_find(sessions, session_data))
    \/ \E session_data \in RaceRequests : RaceFind(resume_session_find(sessions, session_data))
    \/ \E session_data \in RaceRequests : RaceFind(end_session_find(sessions, session_data))
    \/ \E p \in BagToSet(pending) : PauseUpdate(p)
    \/ \E p \in BagToSet(pending) : ResumeUpdate(p)
    \/ \E p \in BagToSet(pending) : EndUpdate(p)

SpecRace == InitRace /\ [][NextRace]_vars

(* The values the pause that appended evs[j] can have stored: the replay   *)
(* of the events it had read, a prefix of those before its own (the log is *)
(* append-only), followed by its event.  Served alone it read them all.    *)
PauseStored(evs, j) ==
    {calculate_session_active_time(SubSeq(evs, 1, k), evs[j]) : k \in 0..(j - 1)}

LastPaused(evs) ==
    CHOOSE j \in 1..Len(evs) :
        /\ evs[j].status = PAUSED
        /\ \A k \in (j + 1)..Len(evs) : evs[k].status # PAUSED

(* C27: while a session is ACTIVE its stored accrued active-time is the    *)
(* value stored by the most recent successful pause, 0 if it was never     *)
(* paused; a session with its start event alone carries 0.                 *)
ClaimC27 ==
    \A i \in 1..Len(sessions) :
        LET evs == sessions[i].events
        IN sessions[i].status = ACTIVE =>
              /\ (\A j \in 1..Len(evs) : evs[j].status # PAUSED)
                    => sessions[i].total_active_time = 0
              /\ (\E j \in 1..Len(evs) : evs[j].status = PAUSED)
                    => sessions[i].total_active_time \in PauseStored(evs, LastPaused(evs))

-----------------------------------------------------------------------------
(* Client times that never go back                                         *)

(* a is not later than b.                                                  *)
NotLater(a, b) ==
    \/ a.ord < b.ord
    \/ a.ord = b.ord /\ a.sec < b.sec
    \/ a.ord = b.ord /\ a.sec = b.sec /\ a.ms <= b.ms

TimesNondecreasing(evs) ==
    \A j \in 1..(Len(evs) - 1) : NotLater(evs[j].timestamp, evs[j + 1].timestamp)

(* Milliseconds from the first event to the last.                          *)
Span(evs) ==
    LET first == evs[1].timestamp
        last == evs[Len(evs)].timestamp
    IN ((last.ord - first.ord) * 86400000) + ((last.sec - first.sec) * 1000)
          + (last.ms - first.ms)

(* C28: with requests served one after another, a session whose events     *)
(* carry client times that never go back in append order has an accrued    *)
(* active-time of at least 0 and at most the time from its first event to  *)
(* its last.                                                               *)
TheoremC28 ==
    \A i \in 1..Len(sessions) :
        LET evs == sessions[i].events
        IN TimesNondecreasing(evs) =>
              /\ sessions[i].total_active_time >= 0
              /\ sessions[i].total_active_time * 1000 <= Span(evs)

WitnessC28 ==
    \E i \in 1..Len(sessions) :
        LET evs == sessions[i].events
        IN /\ Statuses(evs) = <<ACTIVE, PAUSED, ENDED>>
           /\ TimesNondecreasing(evs)
           /\ Span(evs) = 30000
           /\ evs[2].timestamp = evs[3].timestamp
           /\ sessions[i].total_active_time = 30
           /\ pending = EmptyBag

-----------------------------------------------------------------------------
(* Who may operate a session                                               *)

(* The users the get_current_user dependency hands to a route: those of    *)
(* the request bodies and the one of the test token.                       *)
CurrentUsers == {"u1", "u2", "test_user"}

(* A route behind Depends(get_current_user): current_user is bound and     *)
(* the body runs on the request alone.                                     *)
AsUser(current_user, served) == served

(* The request with another user field.                                    *)
SentBy(r, user) == [r EXCEPT !.user = user]

(* C29: pause, resume and end compare neither the request's user field nor *)
(* the authenticated user with the session's owner: for the same session   *)
(* id, app, time and stored sessions, the response and the sessions left   *)
(* are the same for every user.                                            *)
TheoremC29 ==
    \A r \in OperationRequests : \A now \in ServerNow :
        r.user = "u1" =>
            \A user \in Users \ {r.user} :
                LET paused == PauseCall(sessions, SentBy(r, user))
                    resumed == ResumeCall(sessions, SentBy(r, user))
                    ended == EndCall(sessions, SentBy(r, user), now)
                IN /\ paused = PauseCall(sessions, r)
                   /\ resumed = ResumeCall(sessions, r)
                   /\ ended = EndCall(sessions, r, now)
                   /\ \A current_user \in CurrentUsers :
                         /\ AsUser(current_user, paused) = paused
                         /\ AsUser(current_user, resumed) = resumed
                         /\ AsUser(current_user, ended) = ended

WitnessC29 ==
    \E i \in 1..Len(sessions) : \E r \in OperationRequests : \E now \in ServerNow :
        /\ sessions[i].username = "u1"
        /\ sessions[i].status = PAUSED
        /\ r.user = "u2"
        /\ r.session_id = sessions[i].session_id
        /\ r.app = sessions[i].app
        /\ r.time \in ValidTimes
        /\ ResumeCall(sessions, r).response.status_code = 200
        /\ ResumeCall(sessions, r).store[i].status = ACTIVE
        /\ EndCall(sessions, r, now).response.body.user_id = "u1"

-----------------------------------------------------------------------------
(* The duration text of an end                                             *)

(* text is PT[hH][mM][sS] with 0 <= h, 0 <= m < 60, 0 <= s < 60, a         *)
(* component left out standing for 0, and h*3600 + m*60 + s = total.       *)
IsDurationOf(text, total) ==
    \E h \in 0..((Abs(total) \div 3600) + 1) : \E m \in 0..59 : \E sec \in 0..59 :
        \E shown \in SUBSET {"H", "M", "S"} :
            /\ text = "PT" \o (IF "H" \in shown THEN ToString(h) \o "H" ELSE "")
                            \o (IF "M" \in shown THEN ToString(m) \o "M" ELSE "")
                            \o (IF "S" \in shown THEN ToString(sec) \o "S" ELSE "")
            /\ "H" \notin shown => h = 0
            /\ "M" \notin shown => m = 0
            /\ "S" \notin shown => sec = 0
            /\ (h * 3600) + (m * 60) + sec = total

(* C30: whatever the session's history and the client times, the           *)
(* total_active_time text of a successful end is PT[hH][mM][sS] with       *)
(* non-negative components, m < 60 and s < 60, worth the accrued           *)
(* active-time that end stored.                                            *)
ClaimC30 ==
    \A r \in OperationRequests : \A now \in ServerNow :
        LET served == EndCall(sessions, r, now)
        IN served.response.status_code = 200 =>
              \A i \in Found(sessions, r, {ACTIVE, PAUSED}) :
                  IsDurationOf(served.response.body.total_active_time,
                               served.store[i].total_active_time)

====
